---------------------------- MODULE Spec2Model ----------------------------
(***************************************************************************)
(* The interaction controller of nodes/learning_words_nao.py: the pending  *)
(* event slots written by the subscriber callbacks, the state handlers     *)
(* registered with the state machine, and the control loop that runs them. *)
(*                                                                         *)
(* Each callback and each handler invocation is one step.  Python's None   *)
(* for a slot that holds a value is the empty sequence, a held value v is  *)
(* <<v>>.  A context (the dict handed from a handler to the next one) is   *)
(* a function from key names to values; reading a missing key raises.      *)
(* Strings that the code takes apart (words, feedback messages) are        *)
(* sequences of one-character strings.                                     *)
(***************************************************************************)
EXTENDS Integers, Sequences, FiniteSets, TLC

VARIABLES
    state,                              \* StateMachine.get_state()
    loop,                               \* "notStarted", "running", "ended", "aborted"
    info,                               \* the context handed to the next handler
    wordReceived,                       \* line 190
    feedbackReceived,                   \* line 203
    demoShapesReceived,                 \* line 120
    activeLetter,                       \* line 119
    shapeFinished,                      \* line 166
    testRequestReceived,                \* line 171: "False", "True", "None"
    stopRequestReceived,                \* line 177
    infoToRestore_waitForShapeToFinish, \* line 409
    infoToRestore_waitForRobotToConnect,\* line 802
    infoToRestore_waitForTabletToConnect,\* line 826
    currentCollection,                  \* wordManager.currentCollection
    collectionsLearnt,                  \* the words wordManager has been given
    shapeLearnersStarted,               \* learners started for the current collection
    placedLetters,                      \* letters the screen manager has placed
    phraseCounters,                     \* lines 92-96
    cameraStatus,                       \* what pub_camera_status published last
    displayConfirmed,                   \* history: the display forwarder found the
                                        \* display ready since an event was last drained
    last,                               \* history: the step taken last, with the
                                        \* slots and the context it started from
    stopTicks,                          \* history: handlers started since Stop was set
    events,                             \* history: notifications delivered so far
    accepted,                           \* history: the words stored on arrival
    finishedSincePublish,               \* history: a render-finished signal has come
                                        \* since PUBLISHING_WORD last published
    feedbackGivenFor                    \* history: the collection that was current
                                        \* when the feedback last stored arrived

vars == <<state, loop, info, wordReceived, feedbackReceived, demoShapesReceived,
          activeLetter, shapeFinished, testRequestReceived, stopRequestReceived,
          infoToRestore_waitForShapeToFinish, infoToRestore_waitForRobotToConnect,
          infoToRestore_waitForTabletToConnect, currentCollection, collectionsLearnt,
          shapeLearnersStarted, placedLetters, phraseCounters, cameraStatus,
          displayConfirmed, last, stopTicks, events, accepted, finishedSincePublish,
          feedbackGivenFor>>

slotVars == <<wordReceived, feedbackReceived, demoShapesReceived, activeLetter,
              shapeFinished, testRequestReceived, stopRequestReceived>>

restoreVars == <<infoToRestore_waitForShapeToFinish,
                 infoToRestore_waitForRobotToConnect,
                 infoToRestore_waitForTabletToConnect>>

learnerVars == <<currentCollection, collectionsLearnt, shapeLearnersStarted>>

outputVars == <<phraseCounters, cameraStatus>>

---------------------------------------------------------------------------
(* Bounds and input sets *)

MaxDemos == 2

MaxEvents == 5

MaxStopTicks == 4

Words == {<<"a">>, <<"a", "b">>}

MaxFields == 3

FeedbackMsgs ==
    { <<"0", "_", "1">>,
      <<"0", "_", "1", "_", "n", "o", "N", "e", "w", "S", "h", "a", "p", "e">>,
      <<"x", "_", "1">> }

---------------------------------------------------------------------------
(* Python values *)

None == <<>>

Some(v) == <<v>>

NoInfo == [none |-> TRUE]

Has(d, k) == k \in DOMAIN d

Put(d, k, v) == [x \in (DOMAIN d) \cup {k} |-> IF x = k THEN v ELSE d[x]]

Truthy(t) == t = "True"

RECURSIVE SeqToSet(_)
SeqToSet(s) == IF Len(s) = 0 THEN {} ELSE {Head(s)} \cup SeqToSet(Tail(s))

Digits == {"0", "1", "2", "3", "4", "5", "6", "7", "8", "9"}

RECURSIVE Split(_, _)
Split(s, sep) ==
    IF Len(s) = 0 THEN <<  <<>>  >>
    ELSE LET rest == Split(Tail(s), sep)
         IN  IF Head(s) = sep THEN <<  <<>>  >> \o rest
             ELSE << <<Head(s)>> \o Head(rest) >> \o Tail(rest)

IsInt(f) ==
    LET body == IF Len(f) > 0 /\ Head(f) \in {"-", "+"} THEN Tail(f) ELSE f
    IN  Len(body) > 0 /\ \A i \in 1..Len(body) : body[i] \in Digits

NoNewShapeToken == <<"n", "o", "N", "e", "w", "S", "h", "a", "p", "e">>

Other == <<"o", "t", "h", "e", "r">>

(* The fields a feedback string is put together from, and the strings of   *)
(* up to MaxFields of them joined by "_".                                  *)
FeedbackFields == { <<"2">>, <<"5">>, <<"x">>, <<>>, <<"-", "1">>, NoNewShapeToken, Other }

RECURSIVE JoinFields(_)
JoinFields(fields) ==
    IF Len(fields) = 1 THEN fields[1]
    ELSE fields[1] \o <<"_">> \o JoinFields(Tail(fields))

FeedbackStrings ==
    { JoinFields(fields) : fields \in UNION { [1..n -> FeedbackFields] : n \in 1..MaxFields } }

(* int() of a field that IsInt accepts *)
DigitValue(c) ==
    CASE c = "0" -> 0 [] c = "1" -> 1 [] c = "2" -> 2 [] c = "3" -> 3 [] c = "4" -> 4
      [] c = "5" -> 5 [] c = "6" -> 6 [] c = "7" -> 7 [] c = "8" -> 8 [] c = "9" -> 9

RECURSIVE DigitsValue(_, _)
DigitsValue(body, acc) ==
    IF Len(body) = 0 THEN acc
    ELSE DigitsValue(Tail(body), 10 * acc + DigitValue(Head(body)))

ToInt(f) ==
    IF Head(f) = "-" THEN 0 - DigitsValue(Tail(f), 0)
    ELSE IF Head(f) = "+" THEN DigitsValue(Tail(f), 0)
    ELSE DigitsValue(f, 0)

---------------------------------------------------------------------------
(* Settings: the robot takes part and speaks (the defaults of lines 37-42); *)
(* every phrase category holds NumPhrases phrases.                          *)

naoSpeaking == TRUE

NumPhrases == 2

PhraseCategories ==
    { "demo_response", "asking_after_feedback", "asking_after_word",
      "word_response", "word_again_response" }

(* Lines 297-299 and their like: the counter of the category spoken from   *)
(* moves on by one and wraps at the length of the category.                *)
Advance_NoWrap(counters, category) ==
    [counters EXCEPT ![category] = @ + 1]

Advance(counters, category) ==
    [counters EXCEPT ![category] = IF @ + 1 = NumPhrases THEN 0 ELSE @ + 1]

Spoken(counters, category) ==
    IF naoSpeaking THEN Advance(counters, category) ELSE counters

(* What a handler sends out: a command with its integer arguments. *)
Cmd(name, args) == [cmd |-> name, args |-> args]

---------------------------------------------------------------------------
(* The registered states *)

drawingLetterSubstates ==
    <<"WAITING_FOR_ROBOT_TO_CONNECT", "WAITING_FOR_TABLET_TO_CONNECT", "PUBLISHING_LETTER">>

RegisteredStates ==
    { "STARTING_INTERACTION", "WAITING_FOR_ROBOT_TO_CONNECT", "WAITING_FOR_WORD",
      "RESPONDING_TO_NEW_WORD", "PUBLISHING_WORD", "PUBLISHING_LETTER",
      "WAITING_FOR_LETTER_TO_FINISH", "ASKING_FOR_FEEDBACK", "WAITING_FOR_FEEDBACK",
      "RESPONDING_TO_FEEDBACK", "RESPONDING_TO_DEMONSTRATION",
      "RESPONDING_TO_DEMONSTRATION_FULL_WORD", "RESPONDING_TO_TEST_CARD",
      "WAITING_FOR_TABLET_TO_CONNECT", "STOPPING", "EXIT" }

infoForStartState == [state_goTo |-> <<"STARTING_INTERACTION">>, state_cameFrom |-> "None"]

Slots ==
    [ word |-> wordReceived, fb |-> feedbackReceived, demos |-> demoShapesReceived,
      active |-> activeLetter, finished |-> shapeFinished,
      test |-> testRequestReceived, stop |-> stopRequestReceived ]

Init ==
    /\ state = "None"
    /\ loop = "notStarted"
    /\ info = infoForStartState
    /\ wordReceived = None
    /\ feedbackReceived = None
    /\ demoShapesReceived = <<>>
    /\ activeLetter = "None"
    /\ shapeFinished = FALSE
    /\ testRequestReceived = "False"
    /\ stopRequestReceived = FALSE
    /\ infoToRestore_waitForShapeToFinish = NoInfo
    /\ infoToRestore_waitForRobotToConnect = NoInfo
    /\ infoToRestore_waitForTabletToConnect = NoInfo
    /\ currentCollection = <<>>
    /\ collectionsLearnt = {}
    /\ shapeLearnersStarted = 0
    /\ placedLetters = {}
    /\ phraseCounters = [c \in PhraseCategories |-> 0]
    /\ cameraStatus = "None"
    /\ displayConfirmed = FALSE
    /\ last = [op |-> "init", st |-> "None", msg |-> <<>>, out |-> <<>>,
               pre |-> Slots, restore |-> restoreVars,
               confirmed |-> displayConfirmed, learner |-> learnerVars,
                counters |-> phraseCounters, ctx |-> info]
    /\ stopTicks = 0
    /\ events = 0
    /\ accepted = {}
    /\ finishedSincePublish = FALSE
    /\ feedbackGivenFor = None

---------------------------------------------------------------------------
(* Subscriber callbacks.  rospy delivers them while the node is up: from   *)
(* the registration of the subscribers until the loop ends.  A run of the  *)
(* model delivers at most MaxEvents notifications.                         *)

NodeUp == loop \in {"notStarted", "running"}

Delivered(op, msg) ==
    /\ events < MaxEvents
    /\ events' = events + 1
    /\ last' = [op |-> op, st |-> state, msg |-> msg, out |-> <<>>, pre |-> Slots,
                restore |-> restoreVars,
                confirmed |-> displayConfirmed, learner |-> learnerVars,
                counters |-> phraseCounters, ctx |-> info]
    /\ finishedSincePublish' = (op = "onShapeFinished" \/ finishedSincePublish)
    /\ UNCHANGED <<state, loop, info, restoreVars, learnerVars, placedLetters,
                   outputVars, displayConfirmed, stopTicks>>

Noted(op, msg) == Delivered(op, msg) /\ UNCHANGED <<accepted, feedbackGivenFor>>

WordAccepting_AlsoWhileResponding(st) ==
    st \in {"WAITING_FOR_FEEDBACK", "WAITING_FOR_WORD", "ASKING_FOR_FEEDBACK",
            "STARTING_INTERACTION", "RESPONDING_TO_NEW_WORD", "None"}

WordAccepting_AlsoWhileConnecting(st) ==
    st \in {"WAITING_FOR_FEEDBACK", "WAITING_FOR_WORD", "ASKING_FOR_FEEDBACK",
            "STARTING_INTERACTION", "None", "WAITING_FOR_ROBOT_TO_CONNECT"}

WordAccepting(st) ==
    st \in {"WAITING_FOR_FEEDBACK", "WAITING_FOR_WORD", "ASKING_FOR_FEEDBACK",
            "STARTING_INTERACTION", "None"}

onWordReceived(message) ==
    /\ NodeUp
    /\ wordReceived' = IF WordAccepting(state) THEN Some(message) ELSE None
    /\ accepted' = IF WordAccepting(state) THEN accepted \cup {message} ELSE accepted
    /\ Delivered("onWordReceived", message)
    /\ UNCHANGED feedbackGivenFor
    /\ UNCHANGED <<feedbackReceived, demoShapesReceived, activeLetter, shapeFinished,
                   testRequestReceived, stopRequestReceived>>

FeedbackAccepting(st) ==
    st \in {"ASKING_FOR_FEEDBACK", "WAITING_FOR_FEEDBACK", "WAITING_FOR_LETTER_TO_FINISH"}

FeedbackDropping_Elsewhere(st) == TRUE

FeedbackDropping(st) == st = "RESPONDING_TO_FEEDBACK"

onFeedbackReceived(message) ==
    /\ NodeUp
    /\ feedbackReceived' =
          IF FeedbackAccepting(state) THEN Some(message)
          ELSE IF FeedbackDropping(state) THEN None
          ELSE feedbackReceived
    /\ feedbackGivenFor' =
          IF FeedbackAccepting(state) THEN Some(currentCollection) ELSE feedbackGivenFor
    /\ Delivered("onFeedbackReceived", message)
    /\ UNCHANGED accepted
    /\ UNCHANGED <<wordReceived, demoShapesReceived, activeLetter, shapeFinished,
                   testRequestReceived, stopRequestReceived>>

DemoAccepting_AlsoWhileDrawing(st) ==
    st \in {"WAITING_FOR_FEEDBACK", "ASKING_FOR_FEEDBACK", "WAITING_FOR_LETTER_TO_FINISH"}

DemoAccepting(st) == st \in {"WAITING_FOR_FEEDBACK", "ASKING_FOR_FEEDBACK"}

(* What the screen manager answers for a drawn path: the letters whose     *)
(* template boxes the path splits against (in the order the dict yields    *)
(* them), and the letter found nearest to the path, "None" when none is.   *)
TemplateSplits ==
    {<<>>} \cup {<<l>> : l \in placedLetters}
           \cup {p \in placedLetters \X placedLetters : p[1] # p[2]}

LettersFound == placedLetters \cup {"None"}

(* Lines 133-161: what an accepted sample makes of the pending list and of *)
(* the hint.                                                               *)
routeDemonstration_NearestBeforeHint(demo_from_template, letter) ==
    IF demo_from_template # <<>>
    THEN [demos |-> demoShapesReceived \o demo_from_template, active |-> activeLetter]
    ELSE IF letter # "None"
    THEN [demos |-> <<letter>>, active |-> activeLetter]
    ELSE IF activeLetter # "None"
    THEN [demos |-> <<activeLetter>>, active |-> "None"]
    ELSE [demos |-> demoShapesReceived, active |-> activeLetter]

routeDemonstration(demo_from_template, letter) ==
    IF demo_from_template # <<>>
    THEN [demos |-> demoShapesReceived \o demo_from_template, active |-> activeLetter]
    ELSE IF activeLetter # "None"
    THEN [demos |-> <<activeLetter>>, active |-> "None"]
    ELSE IF letter # "None"
    THEN [demos |-> <<letter>>, active |-> activeLetter]
    ELSE [demos |-> demoShapesReceived, active |-> activeLetter]

onUserDrawnShapeReceived(demo_from_template, letter) ==
    /\ NodeUp
    /\ Len(demoShapesReceived) + Len(demo_from_template) <= MaxDemos
    /\ IF DemoAccepting(state)
       THEN /\ demoShapesReceived' = routeDemonstration(demo_from_template, letter).demos
            /\ activeLetter' = routeDemonstration(demo_from_template, letter).active
       ELSE UNCHANGED <<demoShapesReceived, activeLetter>>
    /\ Noted("onUserDrawnShapeReceived",
                 [template |-> demo_from_template, letter |-> letter])
    /\ UNCHANGED <<wordReceived, feedbackReceived, shapeFinished,
                   testRequestReceived, stopRequestReceived>>

onSetActiveShapeGesture(letter) ==
    /\ loop = "running"
    /\ activeLetter' = letter
    /\ Noted("onSetActiveShapeGesture", letter)
    /\ UNCHANGED <<wordReceived, feedbackReceived, demoShapesReceived, shapeFinished,
                   testRequestReceived, stopRequestReceived>>

onShapeFinished ==
    /\ NodeUp
    /\ shapeFinished' = TRUE
    /\ Noted("onShapeFinished", <<>>)
    /\ UNCHANGED <<wordReceived, feedbackReceived, demoShapesReceived, activeLetter,
                   testRequestReceived, stopRequestReceived>>

onTestRequestReceived ==
    /\ NodeUp
    /\ testRequestReceived' = "True"
    /\ Noted("onTestRequestReceived", <<>>)
    /\ UNCHANGED <<wordReceived, feedbackReceived, demoShapesReceived, activeLetter,
                   shapeFinished, stopRequestReceived>>

onStopRequestReceived_Gated ==
    /\ NodeUp
    /\ stopRequestReceived' = WordAccepting(state)
    /\ Noted("onStopRequestReceived", <<>>)
    /\ UNCHANGED <<wordReceived, feedbackReceived, demoShapesReceived, activeLetter,
                   shapeFinished, testRequestReceived>>

onStopRequestReceived ==
    /\ NodeUp
    /\ stopRequestReceived' = TRUE
    /\ Noted("onStopRequestReceived", <<>>)
    /\ UNCHANGED <<wordReceived, feedbackReceived, demoShapesReceived, activeLetter,
                   shapeFinished, testRequestReceived>>

---------------------------------------------------------------------------
(* The control loop.  run() makes the start state current and then calls   *)
(* the current state's handler with the current context, replacing both    *)
(* by what the handler returns, until an end state is returned.  A handler *)
(* that raises ends the loop, and so does a returned name that is not      *)
(* registered.                                                             *)

(* input is what the handler read from its collaborators, out what it     *)
(* sent to them.                                                           *)
Stepped(input, out) ==
    /\ last' = [op |-> "handler", st |-> state, msg |-> input, out |-> out,
                pre |-> Slots, restore |-> restoreVars,
                confirmed |-> displayConfirmed, learner |-> learnerVars,
                counters |-> phraseCounters, ctx |-> info]
    /\ stopTicks' = IF stopRequestReceived /\ stopTicks < MaxStopTicks
                    THEN stopTicks + 1 ELSE stopTicks
    /\ finishedSincePublish' = (state # "PUBLISHING_WORD" /\ finishedSincePublish)
    /\ UNCHANGED feedbackGivenFor

Entered(nextState, infoForNextState) ==
    IF nextState \in RegisteredStates
    THEN /\ state' = nextState
         /\ info' = infoForNextState
         /\ loop' = IF nextState = "EXIT" THEN "ended" ELSE "running"
    ELSE /\ loop' = "aborted"
         /\ UNCHANGED <<state, info>>

TickedWith(input, out) ==
    /\ Stepped(input, out)
    /\ UNCHANGED <<events, accepted>>

ReturnWith(input, out, nextState, infoForNextState) ==
    /\ TickedWith(input, out)
    /\ Entered(nextState, infoForNextState)

(* The subscribers run their callbacks on threads of their own, so a       *)
(* callback can run while the handler is between reading a slot (line 732, *)
(* 754, 762, 770) and emptying it (line 733, 755, 763, 771).  raced is     *)
(* <<>>, or holds the one notification delivered in that window.           *)
Notification(topic, data) == [topic |-> topic, data |-> data]

ReturnRaced(raced, nextState, infoForNextState) ==
    /\ events < MaxEvents
    /\ events' = events + 1
    /\ accepted' = IF raced[1].topic = "word" THEN accepted \cup {raced[1].data}
                   ELSE accepted
    /\ Stepped(raced, <<>>)
    /\ Entered(nextState, infoForNextState)

RaiseWith(input, out) ==
    /\ TickedWith(input, out)
    /\ loop' = "aborted"
    /\ UNCHANGED <<state, info>>

Ticked == TickedWith(<<>>, <<>>)

Return(nextState, infoForNextState) == ReturnWith(<<>>, <<>>, nextState, infoForNextState)

Raise == RaiseWith(<<>>, <<>>)

Handed(raced, nextState, infoForNextState) ==
    IF raced = <<>> THEN Return(nextState, infoForNextState)
    ELSE ReturnRaced(raced, nextState, infoForNextState)

Running(st) == loop = "running" /\ state = st

run ==
    /\ loop = "notStarted"
    /\ loop' = "running"
    /\ state' = "WAITING_FOR_ROBOT_TO_CONNECT"
    /\ info' = infoForStartState
    /\ last' = [op |-> "run", st |-> state, msg |-> <<>>, out |-> <<>>, pre |-> Slots,
                restore |-> restoreVars,
                confirmed |-> displayConfirmed, learner |-> learnerVars,
                counters |-> phraseCounters, ctx |-> info]
    /\ UNCHANGED <<slotVars, restoreVars, learnerVars, placedLetters, outputVars,
                   displayConfirmed, stopTicks, events, accepted,
                   finishedSincePublish, feedbackGivenFor>>

---------------------------------------------------------------------------
(* State handlers *)

startInteractionNext_StopsUnasked == "STOPPING"

startInteractionNext ==
    IF stopRequestReceived THEN "STOPPING" ELSE "WAITING_FOR_WORD"

startInteraction ==
    /\ Running("STARTING_INTERACTION")
    /\ Return(startInteractionNext, [state_cameFrom |-> "STARTING_INTERACTION"])
    /\ UNCHANGED <<slotVars, restoreVars, learnerVars, placedLetters, outputVars,
                   displayConfirmed>>

(* The forwarders hand on the stored context itself, so the pop of its     *)
(* state_goTo shows in the stored context too.                             *)
PopGoTo_FromBack(ctx) ==
    Put(ctx, "state_goTo", SubSeq(ctx["state_goTo"], 1, Len(ctx["state_goTo"]) - 1))

PopGoTo(ctx) == Put(ctx, "state_goTo", Tail(ctx["state_goTo"]))

CanPop(ctx) == Has(ctx, "state_goTo") /\ Len(ctx["state_goTo"]) > 0

(* Lines 416-419, 806-809 and 830-833: a forwarder stores the context it   *)
(* is entered with from another state and keeps what it stored when it is  *)
(* entered from itself.                                                    *)
StoredOnEntry_EveryTick(ctx, self, kept) == ctx

StoredOnEntry(ctx, self, kept) ==
    IF ctx["state_cameFrom"] # self THEN ctx ELSE kept

waitForRobotToConnectNext_LastOfQueue(goTo) ==
    IF stopRequestReceived THEN "STOPPING" ELSE goTo[Len(goTo)]

waitForRobotToConnectNext(goTo) ==
    IF stopRequestReceived THEN "STOPPING" ELSE Head(goTo)

waitForRobotToConnect ==
    /\ Running("WAITING_FOR_ROBOT_TO_CONNECT")
    /\ LET stored == StoredOnEntry(info, "WAITING_FOR_ROBOT_TO_CONNECT",
                                   infoToRestore_waitForRobotToConnect)
       IN  IF CanPop(stored)
           THEN /\ infoToRestore_waitForRobotToConnect' = PopGoTo(stored)
                /\ Return(waitForRobotToConnectNext(stored["state_goTo"]), PopGoTo(stored))
           ELSE /\ infoToRestore_waitForRobotToConnect' = stored
                /\ Raise
    /\ UNCHANGED <<slotVars, infoToRestore_waitForShapeToFinish,
                   infoToRestore_waitForTabletToConnect, learnerVars, placedLetters,
                   outputVars, displayConfirmed>>

waitForTabletToConnectNext_NoStop(isResponsive, goTo) ==
    IF isResponsive THEN Head(goTo) ELSE "WAITING_FOR_TABLET_TO_CONNECT"

waitForTabletToConnectNext(isResponsive, goTo) ==
    IF stopRequestReceived THEN "STOPPING"
    ELSE IF isResponsive THEN Head(goTo)
    ELSE "WAITING_FOR_TABLET_TO_CONNECT"

(* The context the display forwarder is entered with is the very dict the   *)
(* robot forwarder stored and handed on, so the pop of line 840 shows in   *)
(* the robot forwarder's stored context too.                               *)
waitForTabletToConnect(isResponsive) ==
    /\ Running("WAITING_FOR_TABLET_TO_CONNECT")
    /\ LET stored == StoredOnEntry(info, "WAITING_FOR_TABLET_TO_CONNECT",
                                   infoToRestore_waitForTabletToConnect)
       IN  IF isResponsive
           THEN IF CanPop(stored)
                THEN /\ infoToRestore_waitForTabletToConnect' = PopGoTo(stored)
                     /\ infoToRestore_waitForRobotToConnect' =
                           IF infoToRestore_waitForRobotToConnect = stored
                           THEN PopGoTo(stored)
                           ELSE infoToRestore_waitForRobotToConnect
                     /\ ReturnWith(isResponsive, <<>>,
                                   waitForTabletToConnectNext(TRUE, stored["state_goTo"]),
                                   PopGoTo(stored))
                ELSE /\ infoToRestore_waitForTabletToConnect' = stored
                     /\ UNCHANGED infoToRestore_waitForRobotToConnect
                     /\ RaiseWith(isResponsive, <<>>)
           ELSE /\ infoToRestore_waitForTabletToConnect' = stored
                /\ UNCHANGED infoToRestore_waitForRobotToConnect
                /\ ReturnWith(isResponsive, <<>>,
                              waitForTabletToConnectNext(FALSE, <<>>),
                              [state_cameFrom |-> "WAITING_FOR_TABLET_TO_CONNECT"])
    /\ displayConfirmed' = (isResponsive \/ displayConfirmed)
    /\ UNCHANGED <<slotVars, infoToRestore_waitForShapeToFinish, learnerVars,
                   placedLetters, outputVars>>

waitForWordNext_KeepsWaiting ==
    IF stopRequestReceived THEN "STOPPING" ELSE "WAITING_FOR_WORD"

waitForWordNext ==
    IF stopRequestReceived THEN "STOPPING"
    ELSE IF wordReceived = None THEN "WAITING_FOR_WORD"
    ELSE "RESPONDING_TO_NEW_WORD"

(* Lines 720-723, 735 and 738: the camera is turned on when the state is   *)
(* entered and off when a word or a stop request takes the handler away.   *)
waitForWordCamera(cameFrom) ==
    IF wordReceived # None \/ stopRequestReceived THEN "False"
    ELSE IF cameFrom # "WAITING_FOR_WORD" THEN "True"
    ELSE cameraStatus

(* Lines 733, 755, 763 and 771: what a waiting handler leaves in a slot    *)
(* whose content it has put into the context.                              *)
Drain_LeavesPending(slot, empty) == slot

Drain_KeepsWhatLosesToStop(slot, empty) ==
    IF stopRequestReceived THEN slot ELSE empty

Drain(slot, empty) == empty

waitForWordDrain(raced) ==
    /\ Running("WAITING_FOR_WORD")
    /\ LET infoForNextState == [state_cameFrom |-> "WAITING_FOR_WORD"]
       IN  IF wordReceived = None
           THEN /\ raced = <<>>
                /\ Return(waitForWordNext, infoForNextState)
                /\ UNCHANGED <<wordReceived, displayConfirmed>>
           ELSE /\ Handed(raced, waitForWordNext,
                          Put(infoForNextState, "wordReceived", wordReceived[1]))
                /\ wordReceived' = Drain(wordReceived, None)
                /\ displayConfirmed' = FALSE
    /\ cameraStatus' = waitForWordCamera(info["state_cameFrom"])
    /\ UNCHANGED <<feedbackReceived, demoShapesReceived, activeLetter, shapeFinished,
                   testRequestReceived, stopRequestReceived, restoreVars,
                   learnerVars, placedLetters, phraseCounters>>

waitForWord == waitForWordDrain(<<>>)

(* A word notification is stored by onWordReceived after line 732 has read *)
(* the pending word and before line 733 empties the slot.                  *)
waitForWordRaced(message) ==
    /\ wordReceived # None
    /\ waitForWordDrain(<<Notification("word", message)>>)

(* Lines 585-595 (and 527-537): a pending word, then a pending test        *)
(* request, then a pending stop request each replace the next state.       *)
respondToNewWordNext ==
    IF stopRequestReceived THEN "STOPPING"
    ELSE IF Truthy(testRequestReceived) THEN "RESPONDING_TO_TEST_CARD"
    ELSE IF wordReceived # None THEN "RESPONDING_TO_NEW_WORD"
    ELSE "PUBLISHING_WORD"

(* Lines 577-580: one call of wordManager.startNextShapeLearner for each   *)
(* i in range(n), each starting the learner of the next letter of the      *)
(* collection and handing back its shape (named here by its letter).       *)
RECURSIVE startShapeLearners_OneShort(_, _, _)
startShapeLearners_OneShort(collection, started, n) ==
    IF n <= 1 THEN [shapesToPublish |-> <<>>, started |-> started]
    ELSE LET rest == startShapeLearners_OneShort(collection, started + 1, n - 1)
         IN  [ shapesToPublish |-> <<collection[started + 1]>> \o rest.shapesToPublish,
               started |-> rest.started ]

RECURSIVE startShapeLearners(_, _, _)
startShapeLearners(collection, started, n) ==
    IF n = 0 THEN [shapesToPublish |-> <<>>, started |-> started]
    ELSE LET rest == startShapeLearners(collection, started + 1, n - 1)
         IN  [ shapesToPublish |-> <<collection[started + 1]>> \o rest.shapesToPublish,
               started |-> rest.started ]

respondToNewWord ==
    /\ Running("RESPONDING_TO_NEW_WORD")
    /\ IF ~Has(info, "wordReceived")
       THEN /\ Raise
            /\ UNCHANGED <<wordReceived, testRequestReceived, learnerVars,
                           placedLetters, phraseCounters, displayConfirmed>>
       ELSE LET wordToLearn == info["wordReceived"]
                wordSeenBefore == wordToLearn \in collectionsLearnt
                learners == startShapeLearners(wordToLearn, 0, Len(wordToLearn))
                infoForNextState ==
                    [ state_cameFrom |-> "RESPONDING_TO_NEW_WORD",
                      shapesToPublish |-> learners.shapesToPublish,
                      wordToWrite |-> wordToLearn ]
            IN  /\ currentCollection' = wordToLearn
                /\ collectionsLearnt' = collectionsLearnt \cup {wordToLearn}
                /\ shapeLearnersStarted' = learners.started
                /\ phraseCounters' =
                      Spoken(phraseCounters,
                             IF wordSeenBefore THEN "word_again_response"
                             ELSE "word_response")
                /\ placedLetters' = {}
                /\ ReturnWith(<<>>, <<Cmd("clear", <<>>)>>, respondToNewWordNext,
                              IF wordReceived # None
                              THEN Put(infoForNextState, "wordReceived", wordReceived[1])
                              ELSE infoForNextState)
                /\ displayConfirmed' = (wordReceived = None /\ displayConfirmed)
                /\ wordReceived' = None
                /\ testRequestReceived' =
                      IF Truthy(testRequestReceived) THEN "None" ELSE testRequestReceived
    /\ UNCHANGED <<feedbackReceived, demoShapesReceived, activeLetter, shapeFinished,
                   stopRequestReceived, restoreVars, cameraStatus>>

(* Lines 102-105.  Times are counted in units of dt / (NUMPOINTS_SHAPEMODELER *)
(* - 1), in which dt and dt / DOWNSAMPLEFACTOR are both whole numbers.      *)
NUMDESIREDSHAPEPOINTS == 7

NUMPOINTS_SHAPEMODELER == 70

dt == NUMPOINTS_SHAPEMODELER - 1

t0 == dt + 1

(* float(dt) / DOWNSAMPLEFACTOR, with DOWNSAMPLEFACTOR =                    *)
(* (NUMPOINTS_SHAPEMODELER - 1) / (NUMDESIREDSHAPEPOINTS - 1).              *)
dtOverDOWNSAMPLEFACTOR ==
    (dt * (NUMDESIREDSHAPEPOINTS - 1)) \div (NUMPOINTS_SHAPEMODELER - 1)

(* The paths of a placed word, a path being the sequence of its points     *)
(* (here their numbers): one path of pointsPerLetter points per letter.    *)
get_letters_paths(collection, pointsPerLetter) ==
    [l \in 1..Len(collection) |-> [k \in 1..pointsPerLetter |-> k]]

(* Lines 891-911: the time stamps of traj.poses.  pointIdx is set to 0     *)
(* before the loop over the letters and counts on through all of them.     *)
RECURSIVE stampLetters_RestartsEachLetter(_, _, _)
stampLetters_RestartsEachLetter(paths, pointIdx, deltaT) ==
    IF paths = <<>> THEN <<>>
    ELSE [k \in 1..Len(Head(paths)) |-> t0 + (k - 1) * deltaT]
         \o stampLetters_RestartsEachLetter(Tail(paths), 0, deltaT)

RECURSIVE stampLetters(_, _, _)
stampLetters(paths, pointIdx, deltaT) ==
    IF paths = <<>> THEN <<>>
    ELSE [k \in 1..Len(Head(paths)) |-> t0 + (pointIdx + k - 1) * deltaT]
         \o stampLetters(Tail(paths), pointIdx + Len(Head(paths)), deltaT)

make_traj_msg_RestartsEachLetter(shapedWord, deltaT) ==
    stampLetters_RestartsEachLetter(shapedWord, 0, deltaT)

make_traj_msg(shapedWord, deltaT) == stampLetters(shapedWord, 0, deltaT)

publishWord ==
    /\ Running("PUBLISHING_WORD")
    /\ placedLetters' = SeqToSet(currentCollection)
    /\ LET placedWord == get_letters_paths(currentCollection, NUMPOINTS_SHAPEMODELER)
           downsampledShapedWord ==
               get_letters_paths(currentCollection, NUMDESIREDSHAPEPOINTS)
           traj == make_traj_msg(placedWord, dtOverDOWNSAMPLEFACTOR)
           downsampledTraj == make_traj_msg(downsampledShapedWord, dt)
           out == <<Cmd("traj_downsampled", downsampledTraj), Cmd("traj", traj)>>
       IN  IF ~Has(info, "wordToWrite")
           THEN RaiseWith(<<>>, out)
           ELSE ReturnWith(<<>>, out, "WAITING_FOR_LETTER_TO_FINISH",
                           [ state_cameFrom |-> "PUBLISHING_WORD",
                             state_goTo |-> <<"ASKING_FOR_FEEDBACK">>,
                             centre |-> "trajStartPosition",
                             wordWritten |-> info["wordToWrite"] ])
    /\ UNCHANGED <<slotVars, restoreVars, learnerVars, outputVars, displayConfirmed>>

(* Lines 426-461.  The try block of lines 439-445 turns a context without  *)
(* state_goTo into WAITING_FOR_FEEDBACK; an empty state_goTo leaves        *)
(* nextState None, which falls through to the default of lines 457-461.    *)
waitForShapeToFinishNext_NoStop(stored) ==
    IF ~shapeFinished THEN "WAITING_FOR_LETTER_TO_FINISH"
    ELSE IF ~Has(stored, "state_goTo") THEN "WAITING_FOR_FEEDBACK"
    ELSE IF Len(stored["state_goTo"]) > 0 THEN Head(stored["state_goTo"])
    ELSE "WAITING_FOR_LETTER_TO_FINISH"

waitForShapeToFinishNext(stored) ==
    IF stopRequestReceived THEN "STOPPING"
    ELSE IF ~shapeFinished THEN "WAITING_FOR_LETTER_TO_FINISH"
    ELSE IF ~Has(stored, "state_goTo") THEN "WAITING_FOR_FEEDBACK"
    ELSE IF Len(stored["state_goTo"]) > 0 THEN Head(stored["state_goTo"])
    ELSE "WAITING_FOR_LETTER_TO_FINISH"

waitForShapeToFinish ==
    /\ Running("WAITING_FOR_LETTER_TO_FINISH")
    /\ LET stored == StoredOnEntry(info, "WAITING_FOR_LETTER_TO_FINISH",
                                   infoToRestore_waitForShapeToFinish)
           popped == IF CanPop(stored) THEN PopGoTo(stored) ELSE stored
           nextState == waitForShapeToFinishNext(stored)
       IN  IF shapeFinished
           THEN /\ shapeFinished' = FALSE
                /\ placedLetters' = placedLetters \cup SeqToSet(currentCollection)
                /\ infoToRestore_waitForShapeToFinish' = popped
                /\ ReturnWith(<<>>, <<Cmd("bounding_boxes", <<>>)>>, nextState,
                              IF nextState = "WAITING_FOR_LETTER_TO_FINISH"
                              THEN [state_cameFrom |-> "WAITING_FOR_LETTER_TO_FINISH"]
                              ELSE popped)
           ELSE /\ infoToRestore_waitForShapeToFinish' = stored
                /\ Return(nextState, [state_cameFrom |-> "WAITING_FOR_LETTER_TO_FINISH"])
                /\ UNCHANGED <<shapeFinished, placedLetters>>
    /\ UNCHANGED <<wordReceived, feedbackReceived, demoShapesReceived, activeLetter,
                   testRequestReceived, stopRequestReceived,
                   infoToRestore_waitForRobotToConnect,
                   infoToRestore_waitForTabletToConnect, learnerVars, outputVars,
                   displayConfirmed>>

(* Lines 476-498: the feedback string is split on "_"; int() of a field   *)
(* that is missing or no integer raises and is caught.                     *)
ParseFeedback_SecondFieldOptional(data) ==
    LET feedback == Split(data, "_")
        first == IsInt(feedback[1])
        second == Len(feedback) >= 2 /\ IsInt(feedback[2])
        third == Len(feedback) > 2
    IN  [ processMessage |-> first /\ (Len(feedback) >= 2 => second)
                                   /\ (third => feedback[3] = NoNewShapeToken),
          noNewShape |-> third /\ feedback[3] = NoNewShapeToken,
          shapeIndex_messageFor |-> IF first THEN feedback[1] ELSE <<>>,
          bestShape_index |-> IF second THEN feedback[2] ELSE <<"0">> ]

ParseFeedback(data) ==
    LET feedback == Split(data, "_")
        first == IsInt(feedback[1])
        second == Len(feedback) >= 2 /\ IsInt(feedback[2])
        third == Len(feedback) > 2
    IN  [ processMessage |-> first /\ second /\ (third => feedback[3] = NoNewShapeToken),
          noNewShape |-> third /\ feedback[3] = NoNewShapeToken,
          shapeIndex_messageFor |-> IF first THEN feedback[1] ELSE <<>>,
          bestShape_index |-> IF second THEN feedback[2] ELSE <<>> ]

(* Lines 500-518: a message that is processed is passed to the feedback    *)
(* manager of the word manager, once, with both indices as integers.       *)
feedbackManagerCalls(parsed) ==
    IF parsed.processMessage
    THEN << Cmd("feedbackManager",
                << ToInt(parsed.shapeIndex_messageFor), ToInt(parsed.bestShape_index),
                   IF parsed.noNewShape THEN 1 ELSE 0 >>) >>
    ELSE <<>>

(* Lines 500-525: feedback that asks for a new shape which has not         *)
(* converged queues the letter-drawing substates.                          *)
DrawsLetter_EvenIfRejected(parsed, numItersConverged) ==
    ~parsed.noNewShape /\ numItersConverged = 0

DrawsLetter(parsed, numItersConverged) ==
    parsed.processMessage /\ ~parsed.noNewShape /\ numItersConverged = 0

respondToFeedbackNext(drawsLetter) ==
    IF stopRequestReceived THEN "STOPPING"
    ELSE IF Truthy(testRequestReceived) THEN "RESPONDING_TO_TEST_CARD"
    ELSE IF wordReceived # None THEN "RESPONDING_TO_NEW_WORD"
    ELSE IF drawsLetter THEN Head(drawingLetterSubstates)
    ELSE "WAITING_FOR_FEEDBACK"

respondToFeedback(numItersConverged) ==
    /\ Running("RESPONDING_TO_FEEDBACK")
    /\ IF ~Has(info, "feedbackReceived")
       THEN /\ RaiseWith(numItersConverged, <<>>)
            /\ UNCHANGED <<wordReceived, testRequestReceived, displayConfirmed>>
       ELSE LET parsed == ParseFeedback(info["feedbackReceived"])
                drawsLetter == DrawsLetter(parsed, numItersConverged)
                infoForNextState ==
                    IF drawsLetter
                    THEN [ state_goTo |-> Tail(drawingLetterSubstates),
                           state_cameFrom |-> "RESPONDING_TO_FEEDBACK",
                           shapesToPublish |-> <<parsed.shapeIndex_messageFor>> ]
                    ELSE [state_cameFrom |-> "ASKING_FOR_FEEDBACK"]
            IN  /\ ReturnWith(numItersConverged, feedbackManagerCalls(parsed),
                              respondToFeedbackNext(drawsLetter),
                              IF wordReceived # None
                              THEN Put(infoForNextState, "wordReceived", wordReceived[1])
                              ELSE infoForNextState)
                /\ displayConfirmed' = (wordReceived = None /\ displayConfirmed)
                /\ wordReceived' = None
                /\ testRequestReceived' =
                      IF Truthy(testRequestReceived) THEN "None" ELSE testRequestReceived
    /\ UNCHANGED <<feedbackReceived, demoShapesReceived, activeLetter, shapeFinished,
                   stopRequestReceived, restoreVars, learnerVars, placedLetters,
                   outputVars>>

(* Lines 659-671.  The second test of line 667 reads wordReceived again,   *)
(* after lines 662-665 have emptied it.                                    *)
askForFeedbackNext ==
    LET wordAfter == IF wordReceived # None THEN None ELSE wordReceived
    IN  IF stopRequestReceived THEN "STOPPING"
        ELSE IF wordAfter # None THEN "RESPONDING_TO_TEST_CARD"
        ELSE IF wordReceived # None THEN "RESPONDING_TO_NEW_WORD"
        ELSE "WAITING_FOR_FEEDBACK"

askForFeedback ==
    /\ Running("ASKING_FOR_FEEDBACK")
    /\ IF \/ ~Has(info, "centre")
          \/ info["state_cameFrom"] = "PUBLISHING_WORD" /\ ~Has(info, "wordWritten")
          \/ info["state_cameFrom"] = "PUBLISHING_LETTER" /\ ~Has(info, "shapePublished")
       THEN /\ Raise
            /\ UNCHANGED <<wordReceived, testRequestReceived, phraseCounters,
                           displayConfirmed>>
       ELSE LET infoForNextState == [state_cameFrom |-> "ASKING_FOR_FEEDBACK"]
                wordAfter == IF wordReceived # None THEN None ELSE wordReceived
            IN  /\ Return(askForFeedbackNext,
                          IF wordReceived # None
                          THEN Put(infoForNextState, "wordReceived", wordReceived[1])
                          ELSE infoForNextState)
                /\ phraseCounters' =
                      IF info["state_cameFrom"] = "PUBLISHING_WORD"
                      THEN Spoken(phraseCounters, "asking_after_word")
                      ELSE IF info["state_cameFrom"] = "PUBLISHING_LETTER"
                      THEN Spoken(phraseCounters, "asking_after_feedback")
                      ELSE phraseCounters
                /\ displayConfirmed' = (wordReceived = None /\ displayConfirmed)
                /\ wordReceived' = None
                /\ testRequestReceived' =
                      IF wordAfter # None THEN "None" ELSE testRequestReceived
    /\ UNCHANGED <<feedbackReceived, demoShapesReceived, activeLetter, shapeFinished,
                   stopRequestReceived, restoreVars, learnerVars, placedLetters,
                   cameraStatus>>

respondToTestCard ==
    /\ Running("RESPONDING_TO_TEST_CARD")
    /\ Return("WAITING_FOR_WORD", [state_cameFrom |-> "RESPONDING_TO_TEST_CARD"])
    /\ UNCHANGED <<slotVars, restoreVars, learnerVars, placedLetters, outputVars,
                   displayConfirmed>>

stopInteraction ==
    /\ Running("STOPPING")
    /\ Return("EXIT", NoInfo)
    /\ UNCHANGED <<slotVars, restoreVars, learnerVars, placedLetters, outputVars,
                   displayConfirmed>>

(* Lines 749-784: each pending slot is emptied in turn and names the state *)
(* to go to, a later one replacing an earlier one; the state is reached    *)
(* through the robot forwarder.                                            *)
waitForFeedbackGoTo_WordCheckedFirst ==
    IF Truthy(testRequestReceived) THEN <<"RESPONDING_TO_TEST_CARD">>
    ELSE IF demoShapesReceived # <<>> THEN <<"RESPONDING_TO_DEMONSTRATION_FULL_WORD">>
    ELSE IF feedbackReceived # None THEN <<"RESPONDING_TO_FEEDBACK">>
    ELSE IF wordReceived # None THEN <<"RESPONDING_TO_NEW_WORD">>
    ELSE <<>>

waitForFeedbackGoTo ==
    IF Truthy(testRequestReceived) THEN <<"RESPONDING_TO_TEST_CARD">>
    ELSE IF wordReceived # None THEN <<"RESPONDING_TO_NEW_WORD">>
    ELSE IF demoShapesReceived # <<>> THEN <<"RESPONDING_TO_DEMONSTRATION_FULL_WORD">>
    ELSE IF feedbackReceived # None THEN <<"RESPONDING_TO_FEEDBACK">>
    ELSE <<>>

waitForFeedbackNext_StopCheckedFirst ==
    IF waitForFeedbackGoTo # <<>> THEN "WAITING_FOR_ROBOT_TO_CONNECT"
    ELSE IF stopRequestReceived THEN "STOPPING"
    ELSE "WAITING_FOR_FEEDBACK"

waitForFeedbackNext_TimesOut ==
    IF stopRequestReceived THEN "STOPPING"
    ELSE IF waitForFeedbackGoTo # <<>> THEN "WAITING_FOR_ROBOT_TO_CONNECT"
    ELSE "WAITING_FOR_WORD"

waitForFeedbackNext ==
    IF stopRequestReceived THEN "STOPPING"
    ELSE IF waitForFeedbackGoTo # <<>> THEN "WAITING_FOR_ROBOT_TO_CONNECT"
    ELSE "WAITING_FOR_FEEDBACK"

(* Lines 744-747 and 786-787: the camera is turned on when the state is    *)
(* entered; line 786 compares nextState, which is still None when nothing  *)
(* was pending, with the name of the state.                                *)
waitForFeedbackCamera(cameFrom) ==
    LET nextState == IF stopRequestReceived THEN "STOPPING"
                     ELSE IF waitForFeedbackGoTo # <<>> THEN "WAITING_FOR_ROBOT_TO_CONNECT"
                     ELSE "None"
    IN  IF nextState # "WAITING_FOR_FEEDBACK" THEN "False"
        ELSE IF cameFrom # "WAITING_FOR_FEEDBACK" THEN "True"
        ELSE cameraStatus

(* A demonstration stored in the window between lines 762 and 763: one    *)
(* that splits against the templates is appended to the list the context   *)
(* already refers to (line 142); any other replaces the list the slot      *)
(* names (line 161), which line 763 then replaces by the empty list.       *)
RacedDemo(raced) == raced # <<>> /\ raced[1].topic = "demo"

waitForFeedbackDrain(raced) ==
    /\ Running("WAITING_FOR_FEEDBACK")
    /\ LET routed == IF RacedDemo(raced)
                     THEN routeDemonstration(raced[1].data.template, raced[1].data.letter)
                     ELSE [demos |-> demoShapesReceived, active |-> activeLetter]
           handedDemos == IF RacedDemo(raced) /\ raced[1].data.template # <<>>
                          THEN routed.demos ELSE demoShapesReceived
           i0 == [state_cameFrom |-> "WAITING_FOR_FEEDBACK"]
           i1 == IF feedbackReceived # None
                 THEN Put(i0, "feedbackReceived", feedbackReceived[1]) ELSE i0
           i2 == IF demoShapesReceived # <<>>
                 THEN Put(i1, "demoShapesReceived", handedDemos) ELSE i1
           i3 == IF wordReceived # None
                 THEN Put(i2, "wordReceived", wordReceived[1]) ELSE i2
           i4 == IF waitForFeedbackGoTo # <<>>
                 THEN Put(i3, "state_goTo", waitForFeedbackGoTo) ELSE i3
       IN  /\ Handed(raced, waitForFeedbackNext,
                     IF waitForFeedbackNext = "WAITING_FOR_FEEDBACK" THEN i0 ELSE i4)
           /\ activeLetter' = routed.active
    /\ feedbackReceived' = Drain(feedbackReceived, None)
    /\ demoShapesReceived' = Drain(demoShapesReceived, <<>>)
    /\ wordReceived' = Drain(wordReceived, None)
    /\ testRequestReceived' =
          IF Truthy(testRequestReceived) THEN "None" ELSE testRequestReceived
    /\ cameraStatus' = waitForFeedbackCamera(info["state_cameFrom"])
    /\ displayConfirmed' = (waitForFeedbackGoTo = <<>> /\ displayConfirmed)
    /\ UNCHANGED <<shapeFinished, stopRequestReceived, restoreVars,
                   learnerVars, placedLetters, phraseCounters>>

waitForFeedback == waitForFeedbackDrain(<<>>)

(* A notification is stored by its callback after the handler has read the *)
(* slot it goes to and before the handler empties that slot.               *)
waitForFeedbackRaced(notification) ==
    /\ CASE notification.topic = "word" -> wordReceived # None
         [] notification.topic = "feedback" -> feedbackReceived # None
         [] notification.topic = "demo" ->
               /\ demoShapesReceived # <<>>
               /\ Len(demoShapesReceived) + Len(notification.data.template) <= MaxDemos
    /\ waitForFeedbackDrain(<<notification>>)

RacingNotifications ==
    {Notification("word", message) : message \in Words}
    \cup {Notification("feedback", message) : message \in FeedbackMsgs}
    \cup {Notification("demo", [template |-> t, letter |-> l]) :
             t \in TemplateSplits, l \in LettersFound}

(* Lines 305-312: currentCollection.index(shapeName) raises for a letter   *)
(* that is not in the current collection.                                  *)
InCollection(shapeName) == shapeName \in SeqToSet(currentCollection)

respondToDemonstrationWithFullWord ==
    /\ Running("RESPONDING_TO_DEMONSTRATION_FULL_WORD")
    /\ IF ~Has(info, "demoShapesReceived")
       THEN /\ Raise
            /\ UNCHANGED <<placedLetters, phraseCounters>>
       ELSE /\ phraseCounters' = Spoken(phraseCounters, "demo_response")
            /\ IF \E i \in 1..Len(info["demoShapesReceived"]) :
                      ~InCollection(info["demoShapesReceived"][i])
               THEN /\ Raise
                    /\ UNCHANGED placedLetters
               ELSE /\ placedLetters' = {}
                    /\ ReturnWith(<<>>, <<Cmd("clear", <<>>)>>, "PUBLISHING_WORD",
                          [ state_cameFrom |-> "RESPONDING_TO_DEMONSTRATION_FULL_WORD",
                            shapesToPublish |-> currentCollection,
                            wordToWrite |-> currentCollection ])
    /\ UNCHANGED <<slotVars, restoreVars, learnerVars, cameraStatus, displayConfirmed>>

publishShape ==
    /\ Running("PUBLISHING_LETTER")
    /\ Raise
    /\ UNCHANGED <<slotVars, restoreVars, learnerVars, placedLetters, outputVars,
                   displayConfirmed>>

---------------------------------------------------------------------------

Next ==
    \/ run
    \/ \E message \in Words : onWordReceived(message)
    \/ \E message \in FeedbackMsgs : onFeedbackReceived(message)
    \/ \E t \in TemplateSplits, l \in LettersFound : onUserDrawnShapeReceived(t, l)
    \/ \E l \in LettersFound : onSetActiveShapeGesture(l)
    \/ onShapeFinished
    \/ onTestRequestReceived
    \/ onStopRequestReceived
    \/ startInteraction
    \/ waitForRobotToConnect
    \/ \E isResponsive \in BOOLEAN : waitForTabletToConnect(isResponsive)
    \/ waitForWord
    \/ \E message \in Words : waitForWordRaced(message)
    \/ respondToNewWord
    \/ publishWord
    \/ waitForShapeToFinish
    \/ \E numItersConverged \in {0, 1} : respondToFeedback(numItersConverged)
    \/ askForFeedback
    \/ respondToTestCard
    \/ stopInteraction
    \/ waitForFeedback
    \/ \E notification \in RacingNotifications : waitForFeedbackRaced(notification)
    \/ respondToDemonstrationWithFullWord
    \/ publishShape

Spec == Init /\ [][Next]_vars

(* The handler of RESPONDING_TO_FEEDBACK on its own: the controller has    *)
(* taught the word "ab", has asked for feedback, and the waiting state has *)
(* handed a feedback string on through the robot forwarder.                *)
FeedbackHandedOver(data) ==
    LET handed == [ state_cameFrom |-> "WAITING_FOR_FEEDBACK",
                    feedbackReceived |-> data, state_goTo |-> <<>> ]
        written == [ state_cameFrom |-> "PUBLISHING_WORD", state_goTo |-> <<>>,
                     centre |-> "trajStartPosition", wordWritten |-> <<"a", "b">> ]
        started == [infoForStartState EXCEPT !["state_goTo"] = <<>>]
    IN  /\ state = "RESPONDING_TO_FEEDBACK"
        /\ loop = "running"
        /\ info = handed
        /\ wordReceived = None
        /\ feedbackReceived = None
        /\ demoShapesReceived = <<>>
        /\ activeLetter = "None"
        /\ shapeFinished = FALSE
        /\ testRequestReceived = "False"
        /\ stopRequestReceived = FALSE
        /\ infoToRestore_waitForShapeToFinish = written
        /\ infoToRestore_waitForRobotToConnect = handed
        /\ infoToRestore_waitForTabletToConnect = NoInfo
        /\ currentCollection = <<"a", "b">>
        /\ collectionsLearnt = {<<"a", "b">>}
        /\ shapeLearnersStarted = 2
        /\ placedLetters = {"a", "b"}
        /\ phraseCounters = [ [c \in PhraseCategories |-> 0] EXCEPT
                                  !["word_response"] = 1, !["asking_after_word"] = 1 ]
        /\ cameraStatus = "False"
        /\ displayConfirmed = FALSE
        /\ last = [ op |-> "handler", st |-> "WAITING_FOR_ROBOT_TO_CONNECT",
                    msg |-> <<>>, out |-> <<>>, pre |-> Slots,
                    restore |-> <<written, started, NoInfo>>,
                    confirmed |-> FALSE, learner |-> learnerVars,
                    counters |-> phraseCounters,
                    ctx |-> [handed EXCEPT !["state_goTo"] = <<"RESPONDING_TO_FEEDBACK">>] ]
        /\ stopTicks = 0
        /\ events = 3
        /\ accepted = {<<"a", "b">>}
        /\ finishedSincePublish = TRUE
        /\ feedbackGivenFor = Some(<<"a", "b">>)

ParseInit == \E data \in FeedbackStrings : FeedbackHandedOver(data)

ParseNext == \E numItersConverged \in {0, 1} : respondToFeedback(numItersConverged)

ParseSpec == ParseInit /\ [][ParseNext]_vars

TypeOK ==
    /\ state \in RegisteredStates \cup {"None"}
    /\ loop \in {"notStarted", "running", "ended", "aborted"}
    /\ stopRequestReceived \in BOOLEAN
    /\ testRequestReceived \in {"False", "True", "None"}
    /\ Len(wordReceived) <= 1
    /\ Len(feedbackReceived) <= 1
    /\ Len(demoShapesReceived) <= MaxDemos

---------------------------------------------------------------------------
(* Properties *)

HandlerRan(st) == last.op = "handler" /\ last.st = st

EventCheckingStates ==
    { "STARTING_INTERACTION", "WAITING_FOR_WORD", "WAITING_FOR_FEEDBACK",
      "ASKING_FOR_FEEDBACK", "RESPONDING_TO_NEW_WORD", "RESPONDING_TO_FEEDBACK" }

(* C1: a handler of an event-checking state that starts with the Stop slot *)
(* set returns STOPPING, whatever else is pending.                         *)
C1_StopAlwaysWins ==
    (last.op = "handler" /\ last.st \in EventCheckingStates /\ last.pre.stop)
        => (loop = "running" /\ state = "STOPPING")

C1_Witness ==
    /\ HandlerRan("WAITING_FOR_FEEDBACK")
    /\ last.pre.stop
    /\ last.pre.word # None
    /\ Truthy(last.pre.test)
    /\ state = "STOPPING"

(* C2: in WAITING_FOR_FEEDBACK without Stop, a pending Test wins over a    *)
(* pending Word, which wins over a pending Demonstration or Feedback; the  *)
(* handler returns WAITING_FOR_ROBOT_TO_CONNECT with state_goTo holding    *)
(* just the chosen state, and the forwarder (Stop still not set) enters    *)
(* that state.                                                             *)
C2_Chosen(pre) ==
    IF Truthy(pre.test) THEN {"RESPONDING_TO_TEST_CARD"}
    ELSE IF pre.word # None THEN {"RESPONDING_TO_NEW_WORD"}
    ELSE (IF pre.demos # <<>> THEN {"RESPONDING_TO_DEMONSTRATION_FULL_WORD"} ELSE {})
         \cup (IF pre.fb # None THEN {"RESPONDING_TO_FEEDBACK"} ELSE {})

C2_FeedbackArbitration ==
    /\ ( /\ HandlerRan("WAITING_FOR_FEEDBACK")
         /\ ~last.pre.stop
         /\ C2_Chosen(last.pre) # {} )
       => /\ state = "WAITING_FOR_ROBOT_TO_CONNECT"
          /\ Has(info, "state_goTo")
          /\ Len(info["state_goTo"]) = 1
          /\ info["state_goTo"][1] \in C2_Chosen(last.pre)
    /\ ( /\ HandlerRan("WAITING_FOR_ROBOT_TO_CONNECT")
         /\ last.ctx["state_cameFrom"] = "WAITING_FOR_FEEDBACK"
         /\ ~last.pre.stop )
       => /\ state = last.ctx["state_goTo"][1]
          /\ state \notin {"WAITING_FOR_ROBOT_TO_CONNECT", "WAITING_FOR_TABLET_TO_CONNECT"}

C2_Witness ==
    /\ HandlerRan("WAITING_FOR_ROBOT_TO_CONNECT")
    /\ last.ctx["state_cameFrom"] = "WAITING_FOR_FEEDBACK"
    /\ Has(last.ctx, "wordReceived")
    /\ Has(last.ctx, "feedbackReceived")
    /\ state = "RESPONDING_TO_NEW_WORD"

(* C3: in ASKING_FOR_FEEDBACK, RESPONDING_TO_NEW_WORD and                   *)
(* RESPONDING_TO_FEEDBACK, a pending Test request without Stop makes the   *)
(* handler return RESPONDING_TO_TEST_CARD and empty the Test slot, with or *)
(* without a pending Word.                                                 *)
C3_TestPreemptsWord ==
    ( /\ last.op = "handler"
      /\ last.st \in {"ASKING_FOR_FEEDBACK", "RESPONDING_TO_NEW_WORD",
                      "RESPONDING_TO_FEEDBACK"}
      /\ ~last.pre.stop
      /\ Truthy(last.pre.test) )
    => (state = "RESPONDING_TO_TEST_CARD" /\ ~Truthy(testRequestReceived))

StopPollingStates ==
    { "STARTING_INTERACTION", "WAITING_FOR_ROBOT_TO_CONNECT",
      "WAITING_FOR_TABLET_TO_CONNECT", "WAITING_FOR_WORD", "RESPONDING_TO_NEW_WORD",
      "WAITING_FOR_LETTER_TO_FINISH", "ASKING_FOR_FEEDBACK", "WAITING_FOR_FEEDBACK",
      "RESPONDING_TO_FEEDBACK" }

C5_LoopEndsOnlyByStopping ==
    /\ loop # "aborted"
    /\ loop = "ended" => (HandlerRan("STOPPING") /\ state = "EXIT")
    /\ state = "EXIT" => loop = "ended"

C7_WordGate ==
    /\ last.op = "onWordReceived" =>
          IF last.st \in {"WAITING_FOR_FEEDBACK", "WAITING_FOR_WORD",
                          "ASKING_FOR_FEEDBACK", "STARTING_INTERACTION", "None"}
          THEN wordReceived = Some(last.msg)
          ELSE wordReceived = None
    /\ wordReceived # None => wordReceived[1] \in accepted
    /\ (state = "RESPONDING_TO_NEW_WORD" /\ Has(info, "wordReceived"))
          => info["wordReceived"] \in accepted

C7_Witness ==
    /\ last.op = "onWordReceived"
    /\ last.st = "WAITING_FOR_ROBOT_TO_CONNECT"
    /\ last.pre.word # None
    /\ wordReceived = None

(* C8: a feedback notification is stored in the Feedback slot only when it *)
(* arrives in ASKING_FOR_FEEDBACK, WAITING_FOR_FEEDBACK or                 *)
(* WAITING_FOR_LETTER_TO_FINISH; arriving in RESPONDING_TO_FEEDBACK it     *)
(* empties the slot; in every other state it leaves the slot as it was.    *)
C8_FeedbackGate ==
    last.op = "onFeedbackReceived" =>
        IF last.st \in {"ASKING_FOR_FEEDBACK", "WAITING_FOR_FEEDBACK",
                        "WAITING_FOR_LETTER_TO_FINISH"}
        THEN feedbackReceived = Some(last.msg)
        ELSE IF last.st = "RESPONDING_TO_FEEDBACK"
        THEN feedbackReceived = None
        ELSE feedbackReceived = last.pre.fb

C8_Witness ==
    /\ last.op = "onFeedbackReceived"
    /\ last.st = "RESPONDING_TO_NEW_WORD"
    /\ last.pre.fb # None
    /\ last.pre.fb # Some(last.msg)
    /\ feedbackReceived = last.pre.fb

(* C9: a demonstration that arrives in a state other than                  *)
(* WAITING_FOR_FEEDBACK and ASKING_FOR_FEEDBACK leaves the pending         *)
(* demonstration list and the active-letter hint unchanged.                *)
C9_DemonstrationIgnored ==
    ( /\ last.op = "onUserDrawnShapeReceived"
      /\ last.st \notin {"WAITING_FOR_FEEDBACK", "ASKING_FOR_FEEDBACK"} )
    => /\ demoShapesReceived = last.pre.demos
       /\ activeLetter = last.pre.active

C9_Witness ==
    /\ last.op = "onUserDrawnShapeReceived"
    /\ last.st = "WAITING_FOR_LETTER_TO_FINISH"
    /\ last.pre.active # "None"
    /\ activeLetter = last.pre.active
    /\ demoShapesReceived = <<>>

(* C10: a Test or Stop notification sets its slot in whatever state it     *)
(* arrives, and no step of a callback or a handler takes the Stop slot     *)
(* from set to not-set.                                                    *)
C10_TestStopSticky ==
    /\ last.op = "onTestRequestReceived" => testRequestReceived = "True"
    /\ last.op = "onStopRequestReceived" => stopRequestReceived
    /\ last.pre.stop => stopRequestReceived

C10_Witness ==
    /\ HandlerRan("STOPPING")
    /\ state = "EXIT"
    /\ stopRequestReceived
    /\ testRequestReceived = "None"

Forwarders == {"WAITING_FOR_ROBOT_TO_CONNECT", "WAITING_FOR_TABLET_TO_CONNECT"}

(* The continuation a forwarder holds when its handler starts: the context *)
(* it is entered with, or on a later tick the one it stored.               *)
Captured ==
    IF last.ctx["state_cameFrom"] # last.st THEN last.ctx
    ELSE IF last.st = "WAITING_FOR_ROBOT_TO_CONNECT" THEN last.restore[2]
    ELSE last.restore[3]

DeviceReady == last.st = "WAITING_FOR_ROBOT_TO_CONNECT" \/ last.msg = TRUE

(* C11: when a connect forwarder whose continuation has state_goTo =       *)
(* [A, B, ...] runs with its device ready and Stop not set, it returns A   *)
(* and the continuation with state_goTo = [B, ...] and nothing else        *)
(* changed.                                                                *)
C11_ForwarderResumption ==
    ( /\ last.op = "handler"
      /\ last.st \in Forwarders
      /\ ~last.pre.stop
      /\ DeviceReady
      /\ CanPop(Captured) )
    => /\ loop = "running"
       /\ state = Captured["state_goTo"][1]
       /\ info = [Captured EXCEPT !["state_goTo"] = Tail(@)]

C11_Witness ==
    /\ HandlerRan("WAITING_FOR_TABLET_TO_CONNECT")
    /\ last.ctx["state_cameFrom"] = "WAITING_FOR_TABLET_TO_CONNECT"
    /\ last.msg = TRUE
    /\ ~last.pre.stop
    /\ state = "PUBLISHING_LETTER"
    /\ info["state_cameFrom"] = "RESPONDING_TO_FEEDBACK"
    /\ info["state_goTo"] = <<>>

(* C12: with the Stop slot set, the handler of WAITING_FOR_TABLET_TO_CONNECT *)
(* (display ready or not), of WAITING_FOR_ROBOT_TO_CONNECT and of            *)
(* WAITING_FOR_LETTER_TO_FINISH (render finished or not) returns STOPPING:   *)
(* it neither stays in its state nor goes where the saved queue leads.       *)
C12_StopWhileParked ==
    ( /\ last.op = "handler"
      /\ last.st \in Forwarders \cup {"WAITING_FOR_LETTER_TO_FINISH"}
      /\ last.pre.stop )
    => (loop = "running" /\ state = "STOPPING")

C12_Witness ==
    /\ HandlerRan("WAITING_FOR_TABLET_TO_CONNECT")
    /\ last.ctx["state_cameFrom"] = "WAITING_FOR_TABLET_TO_CONNECT"
    /\ last.msg = FALSE
    /\ last.pre.stop
    /\ state = "STOPPING"

(* C13: with no Stop, Test or Word pending, the handler of WAITING_FOR_WORD *)
(* that finds a word returns RESPONDING_TO_NEW_WORD with that word, whose  *)
(* handler returns PUBLISHING_WORD, whose handler returns                  *)
(* WAITING_FOR_LETTER_TO_FINISH, whose handler returns itself until the    *)
(* render-finished signal is in and then ASKING_FOR_FEEDBACK, whose        *)
(* handler returns WAITING_FOR_FEEDBACK.                                   *)
C13_TeachingOrder ==
    /\ (HandlerRan("WAITING_FOR_WORD") /\ ~last.pre.stop /\ last.pre.word # None)
          => /\ loop = "running"
             /\ state = "RESPONDING_TO_NEW_WORD"
             /\ info["wordReceived"] = last.pre.word[1]
    /\ ( /\ HandlerRan("RESPONDING_TO_NEW_WORD")
         /\ ~last.pre.stop /\ ~Truthy(last.pre.test) /\ last.pre.word = None )
          => /\ loop = "running"
             /\ state = "PUBLISHING_WORD"
             /\ info["wordToWrite"] = last.ctx["wordReceived"]
    /\ HandlerRan("PUBLISHING_WORD")
          => /\ loop = "running"
             /\ state = "WAITING_FOR_LETTER_TO_FINISH"
             /\ info["state_goTo"] = <<"ASKING_FOR_FEEDBACK">>
    /\ (HandlerRan("WAITING_FOR_LETTER_TO_FINISH") /\ ~last.pre.stop)
          => /\ loop = "running"
             /\ state = IF last.pre.finished THEN "ASKING_FOR_FEEDBACK"
                        ELSE "WAITING_FOR_LETTER_TO_FINISH"
    /\ ( /\ HandlerRan("ASKING_FOR_FEEDBACK")
         /\ ~last.pre.stop /\ ~Truthy(last.pre.test) /\ last.pre.word = None )
          => /\ loop = "running"
             /\ state = "WAITING_FOR_FEEDBACK"

C13_Witness ==
    /\ HandlerRan("ASKING_FOR_FEEDBACK")
    /\ last.ctx["state_cameFrom"] = "PUBLISHING_WORD"
    /\ last.ctx["wordWritten"] = <<"a", "b">>
    /\ collectionsLearnt = {<<"a", "b">>}
    /\ accepted = {<<"a", "b">>}
    /\ ~stopRequestReceived
    /\ testRequestReceived = "False"
    /\ state = "WAITING_FOR_FEEDBACK"

RenderingCommands == {"clear", "traj", "traj_downsampled"}

(* C14: a handler of RESPONDING_TO_NEW_WORD,                               *)
(* RESPONDING_TO_DEMONSTRATION_FULL_WORD or PUBLISHING_WORD that publishes *)
(* a clear-surface command or a trajectory runs only after the display     *)
(* forwarder has found the display ready since the event that led to it    *)
(* was taken from its slot.                                                *)
C14_RenderingAfterDisplayConfirmed ==
    ( /\ last.op = "handler"
      /\ last.st \in {"RESPONDING_TO_NEW_WORD", "RESPONDING_TO_DEMONSTRATION_FULL_WORD",
                      "PUBLISHING_WORD"}
      /\ \E i \in 1..Len(last.out) : last.out[i].cmd \in RenderingCommands )
    => last.confirmed

(* C15: the handler of RESPONDING_TO_NEW_WORD starts one shape learner for *)
(* each letter of the word it is handed, and the shapesToPublish it hands  *)
(* on is as long as the word.                                              *)
C15_OneLearnerPerLetter ==
    (HandlerRan("RESPONDING_TO_NEW_WORD") /\ loop = "running")
    => /\ currentCollection = last.ctx["wordReceived"]
       /\ shapeLearnersStarted = Len(last.ctx["wordReceived"])
       /\ Len(info["shapesToPublish"]) = Len(last.ctx["wordReceived"])

C15_Witness ==
    /\ HandlerRan("RESPONDING_TO_NEW_WORD")
    /\ last.ctx["wordReceived"] = <<"a", "b">>
    /\ shapeLearnersStarted = 2
    /\ info["shapesToPublish"] = <<"a", "b">>
    /\ state = "PUBLISHING_WORD"

Str2_5 == <<"2", "_", "5">>

(* C16: a feedback string is passed to the feedback manager exactly when,  *)
(* split on "_", it has a first and a second field that are integers and   *)
(* its third field, if there is one, is noNewShape; the indices passed are *)
(* the two integers and no-new-shape is set exactly when the third field   *)
(* is there.  "2_5" gives (2, 5) without and "2_5_noNewShape" (2, 5) with  *)
(* no-new-shape; "x_5", "2" and "2_5_other" are rejected.                  *)
C16_FeedbackParsing ==
    HandlerRan("RESPONDING_TO_FEEDBACK") =>
        LET data == last.ctx["feedbackReceived"]
            fields == Split(data, "_")
            wellFormed == /\ Len(fields) >= 2
                          /\ IsInt(fields[1])
                          /\ IsInt(fields[2])
                          /\ (Len(fields) >= 3 => fields[3] = NoNewShapeToken)
        IN  /\ loop = "running"
            /\ (last.out # <<>>) <=> wellFormed
            /\ wellFormed =>
                  last.out = << Cmd("feedbackManager",
                                    << ToInt(fields[1]), ToInt(fields[2]),
                                       IF Len(fields) >= 3 THEN 1 ELSE 0 >>) >>
            /\ data = Str2_5 => last.out = <<Cmd("feedbackManager", <<2, 5, 0>>)>>
            /\ data = Str2_5 \o <<"_">> \o NoNewShapeToken
                  => last.out = <<Cmd("feedbackManager", <<2, 5, 1>>)>>
            /\ data \in {<<"x", "_", "5">>, <<"2">>, Str2_5 \o <<"_">> \o Other}
                  => last.out = <<>>

C16_Witness ==
    /\ HandlerRan("RESPONDING_TO_FEEDBACK")
    /\ last.ctx["feedbackReceived"] = <<"2">>
    /\ last.out = <<>>
    /\ state = "WAITING_FOR_FEEDBACK"

WellFormed(data) ==
    LET fields == Split(data, "_")
    IN  /\ Len(fields) >= 2
        /\ IsInt(fields[1])
        /\ IsInt(fields[2])
        /\ (Len(fields) >= 3 => fields[3] = NoNewShapeToken)

(* C17: the handler of RESPONDING_TO_FEEDBACK that is handed a malformed   *)
(* feedback string does not raise, calls nothing of the learning backend,  *)
(* leaves the word collection as it was, and returns WAITING_FOR_FEEDBACK  *)
(* unless a pending Stop, Test or Word names another state.                *)
C17_RejectedFeedbackHasNoEffect ==
    ( /\ HandlerRan("RESPONDING_TO_FEEDBACK")
      /\ Has(last.ctx, "feedbackReceived")
      /\ ~WellFormed(last.ctx["feedbackReceived"]) )
    => /\ loop = "running"
       /\ last.out = <<>>
       /\ learnerVars = last.learner
       /\ state = IF last.pre.stop THEN "STOPPING"
                  ELSE IF Truthy(last.pre.test) THEN "RESPONDING_TO_TEST_CARD"
                  ELSE IF last.pre.word # None THEN "RESPONDING_TO_NEW_WORD"
                  ELSE "WAITING_FOR_FEEDBACK"

C17_Witness ==
    /\ HandlerRan("RESPONDING_TO_FEEDBACK")
    /\ last.ctx["feedbackReceived"] = <<"x", "_", "1">>
    /\ last.msg = 0
    /\ last.out = <<>>
    /\ currentCollection = <<"a", "b">>
    /\ state = "WAITING_FOR_FEEDBACK"

(* C18: a demonstration that arrives in an accepting state is routed in a  *)
(* fixed order: a path that splits against the letter templates adds one   *)
(* sample for each matched letter to the pending list; otherwise, with the *)
(* active-letter hint set, the sample goes to that letter and the hint is  *)
(* cleared; otherwise it goes to the nearest placed letter; with no letter *)
(* found the pending list and the hint stay as they were.                  *)
C18_DemonstrationRouting ==
    ( /\ last.op = "onUserDrawnShapeReceived"
      /\ last.st \in {"WAITING_FOR_FEEDBACK", "ASKING_FOR_FEEDBACK"} )
    => IF last.msg.template # <<>>
       THEN /\ demoShapesReceived = last.pre.demos \o last.msg.template
            /\ activeLetter = last.pre.active
       ELSE IF last.pre.active # "None"
       THEN /\ demoShapesReceived = <<last.pre.active>>
            /\ activeLetter = "None"
       ELSE IF last.msg.letter # "None"
       THEN /\ demoShapesReceived = <<last.msg.letter>>
            /\ activeLetter = last.pre.active
       ELSE /\ demoShapesReceived = last.pre.demos
            /\ activeLetter = last.pre.active

C18_Witness ==
    /\ last.op = "onUserDrawnShapeReceived"
    /\ last.st = "WAITING_FOR_FEEDBACK"
    /\ last.msg.template = <<>>
    /\ last.pre.active = "a"
    /\ last.msg.letter = "b"
    /\ demoShapesReceived = <<"a">>
    /\ activeLetter = "None"

NothingPending(pre) ==
    /\ ~pre.stop
    /\ ~Truthy(pre.test)
    /\ pre.word = None
    /\ pre.fb = None
    /\ pre.demos = <<>>

(* C19: a tick of WAITING_FOR_FEEDBACK with nothing pending returns        *)
(* WAITING_FOR_FEEDBACK and leaves every pending-event slot, the word      *)
(* collection and the phrase counters as they were.                        *)
C19_WaitingForFeedbackIdles ==
    (HandlerRan("WAITING_FOR_FEEDBACK") /\ NothingPending(last.pre))
    => /\ loop = "running"
       /\ state = "WAITING_FOR_FEEDBACK"
       /\ info = [state_cameFrom |-> "WAITING_FOR_FEEDBACK"]
       /\ Slots = last.pre
       /\ learnerVars = last.learner
       /\ phraseCounters = last.counters

C19_Witness ==
    /\ HandlerRan("WAITING_FOR_FEEDBACK")
    /\ last.ctx = [state_cameFrom |-> "WAITING_FOR_FEEDBACK"]
    /\ NothingPending(last.pre)
    /\ state = "WAITING_FOR_FEEDBACK"
    /\ currentCollection = <<"a", "b">>
    /\ phraseCounters["asking_after_word"] = 1

IdleListeningStates == {"WAITING_FOR_WORD", "WAITING_FOR_FEEDBACK"}

(* C20: the tick that enters WAITING_FOR_WORD or WAITING_FOR_FEEDBACK from *)
(* another state and stays there publishes camera status true, and while   *)
(* the controller stays in that state the camera status published last is  *)
(* true: false is published only by the tick that leaves.                  *)
C20_CameraOnWhileListening ==
    ( /\ loop = "running"
      /\ state \in IdleListeningStates
      /\ info["state_cameFrom"] = state )
    => cameraStatus = "True"

(* C21: a tick of WAITING_FOR_TABLET_TO_CONNECT that finds the display not *)
(* ready returns WAITING_FOR_TABLET_TO_CONNECT (Stop not set) and leaves   *)
(* the stored continuation as it was: the context stored on first entry,   *)
(* the one the robot forwarder handed on, is still the stored one however  *)
(* many such ticks have run.                                               *)
C21_ParkedContinuationKept ==
    /\ (HandlerRan("WAITING_FOR_TABLET_TO_CONNECT") /\ last.msg = FALSE)
          => /\ loop = "running"
             /\ infoToRestore_waitForTabletToConnect = Captured
             /\ ~last.pre.stop =>
                   /\ state = "WAITING_FOR_TABLET_TO_CONNECT"
                   /\ info = [state_cameFrom |-> "WAITING_FOR_TABLET_TO_CONNECT"]
    /\ ( /\ loop = "running"
         /\ state = "WAITING_FOR_TABLET_TO_CONNECT"
         /\ info["state_cameFrom"] = "WAITING_FOR_TABLET_TO_CONNECT" )
          => /\ infoToRestore_waitForTabletToConnect = infoToRestore_waitForRobotToConnect
             /\ infoToRestore_waitForTabletToConnect["state_cameFrom"]
                   = "RESPONDING_TO_FEEDBACK"
             /\ infoToRestore_waitForTabletToConnect["state_goTo"]
                   = <<"PUBLISHING_LETTER">>

C21_Witness ==
    /\ HandlerRan("WAITING_FOR_TABLET_TO_CONNECT")
    /\ last.ctx = [state_cameFrom |-> "WAITING_FOR_TABLET_TO_CONNECT"]
    /\ last.msg = FALSE
    /\ state = "WAITING_FOR_TABLET_TO_CONNECT"
    /\ infoToRestore_waitForTabletToConnect["state_goTo"] = <<"PUBLISHING_LETTER">>

Raced ==
    /\ last.op = "handler"
    /\ last.st \in {"WAITING_FOR_WORD", "WAITING_FOR_FEEDBACK"}
    /\ last.msg # <<>>

HandedOn(key, value) == Has(info, key) /\ info[key] = value

(* C22: a Word, Feedback or Demonstration notification that is stored      *)
(* while the handler is reading and emptying its slot is, when the handler *)
(* has returned, in the context handed to the next state or still in the   *)
(* slot.                                                                   *)
C22_RacingNotificationKept ==
    Raced =>
        LET n == last.msg[1]
        IN  CASE n.topic = "word" ->
                   HandedOn("wordReceived", n.data) \/ wordReceived = Some(n.data)
              [] n.topic = "feedback" ->
                   HandedOn("feedbackReceived", n.data) \/ feedbackReceived = Some(n.data)
              [] n.topic = "demo" ->
                   LET sample == IF n.data.template # <<>> THEN n.data.template
                                 ELSE IF last.pre.active # "None" THEN <<last.pre.active>>
                                 ELSE IF n.data.letter # "None" THEN <<n.data.letter>>
                                 ELSE <<>>
                   IN  \A i \in 1..Len(sample) :
                          \/ /\ Has(info, "demoShapesReceived")
                             /\ sample[i] \in SeqToSet(info["demoShapesReceived"])
                          \/ sample[i] \in SeqToSet(demoShapesReceived)

(* C23: every handler invocation returns a registered next state: none    *)
(* raises, none returns an unregistered name or no name, and a forwarder   *)
(* takes its next state from a queue that holds one.                       *)
C23_TransitionsTotal ==
    last.op = "handler" =>
        /\ loop # "aborted"
        /\ state \in RegisteredStates
        /\ last.st \in Forwarders =>
              (state = last.st \/ state = "STOPPING" \/ CanPop(Captured))

WordDrainingStates ==
    { "WAITING_FOR_WORD", "WAITING_FOR_FEEDBACK", "ASKING_FOR_FEEDBACK",
      "RESPONDING_TO_NEW_WORD", "RESPONDING_TO_FEEDBACK" }

TestDrainingStates ==
    { "WAITING_FOR_FEEDBACK", "RESPONDING_TO_NEW_WORD", "RESPONDING_TO_FEEDBACK" }

(* C24: a handler that reads a non-empty Word, Feedback, Demonstration or  *)
(* Test slot has emptied that slot when it returns, and what it read from  *)
(* the Word, Feedback or Demonstration slot is in the context it returns,  *)
(* so the same notification is not there to be read a second time.         *)
C24_DrainedOnce ==
    (last.op = "handler" /\ loop # "aborted") =>
        /\ (last.st \in WordDrainingStates /\ last.pre.word # None) =>
              (wordReceived = None /\ HandedOn("wordReceived", last.pre.word[1]))
        /\ (last.st = "WAITING_FOR_FEEDBACK" /\ last.pre.fb # None) =>
              (feedbackReceived = None /\ HandedOn("feedbackReceived", last.pre.fb[1]))
        /\ (last.st = "WAITING_FOR_FEEDBACK" /\ last.pre.demos # <<>>) =>
              /\ demoShapesReceived = <<>>
              /\ Has(info, "demoShapesReceived")
              /\ SeqToSet(last.pre.demos) \subseteq SeqToSet(info["demoShapesReceived"])
        /\ (last.st \in TestDrainingStates /\ Truthy(last.pre.test)) =>
              ~Truthy(testRequestReceived)

C24_Witness ==
    /\ HandlerRan("WAITING_FOR_FEEDBACK")
    /\ last.msg = <<>>
    /\ last.pre.word # None
    /\ last.pre.demos # <<>>
    /\ Truthy(last.pre.test)
    /\ wordReceived = None
    /\ demoShapesReceived = <<>>
    /\ ~Truthy(testRequestReceived)
    /\ HandedOn("wordReceived", last.pre.word[1])

PoppingStates == Forwarders \cup {"WAITING_FOR_LETTER_TO_FINISH"}

(* The context a popping handler takes its queue from.                     *)
QueueHeld ==
    IF last.st = "WAITING_FOR_LETTER_TO_FINISH"
    THEN IF last.ctx["state_cameFrom"] # last.st THEN last.ctx ELSE last.restore[1]
    ELSE Captured

(* The queues the handlers write out as list literals or as a copy of      *)
(* drawingLetterSubstates less its first element.                          *)
NewQueues ==
    { <<"ASKING_FOR_FEEDBACK">>, Tail(drawingLetterSubstates),
      <<"RESPONDING_TO_TEST_CARD">>, <<"RESPONDING_TO_NEW_WORD">>,
      <<"RESPONDING_TO_DEMONSTRATION_FULL_WORD">>, <<"RESPONDING_TO_FEEDBACK">> }

(* C25: a handler that hands on a state_goTo queue it was given has        *)
(* removed exactly its first element (the state it returns unless Stop is  *)
(* set) and left the rest in order; every other queue handed on is one the *)
(* handler has newly built, whatever queue it was entered with.            *)
C25_QueueConsumedFromFront ==
    (last.op = "handler" /\ loop # "aborted" /\ Has(info, "state_goTo")) =>
        IF last.st \in PoppingStates
        THEN /\ CanPop(QueueHeld)
             /\ info["state_goTo"] = Tail(QueueHeld["state_goTo"])
             /\ state \in {Head(QueueHeld["state_goTo"]), "STOPPING"}
             /\ \A key \in DOMAIN QueueHeld :
                   key # "state_goTo" => HandedOn(key, QueueHeld[key])
        ELSE info["state_goTo"] \in NewQueues

C25_Witness ==
    /\ HandlerRan("WAITING_FOR_ROBOT_TO_CONNECT")
    /\ last.ctx["state_goTo"] = <<"WAITING_FOR_TABLET_TO_CONNECT", "PUBLISHING_LETTER">>
    /\ state = "WAITING_FOR_TABLET_TO_CONNECT"
    /\ info["state_goTo"] = <<"PUBLISHING_LETTER">>

(* The category a handler invocation speaks a phrase from, "None" when it  *)
(* speaks none.                                                            *)
CategorySpoken ==
    IF last.op # "handler" THEN "None"
    ELSE IF last.st = "RESPONDING_TO_NEW_WORD" /\ Has(last.ctx, "wordReceived")
    THEN IF last.ctx["wordReceived"] \in last.learner[2]
         THEN "word_again_response" ELSE "word_response"
    ELSE IF last.st = "ASKING_FOR_FEEDBACK" /\ loop # "aborted"
    THEN IF last.ctx["state_cameFrom"] = "PUBLISHING_WORD" THEN "asking_after_word"
         ELSE IF last.ctx["state_cameFrom"] = "PUBLISHING_LETTER"
         THEN "asking_after_feedback" ELSE "None"
    ELSE IF /\ last.st = "RESPONDING_TO_DEMONSTRATION_FULL_WORD"
            /\ Has(last.ctx, "demoShapesReceived")
    THEN "demo_response"
    ELSE "None"

(* C26: every phrase counter is at least 0 and less than the length of its *)
(* category; a handler that speaks a phrase moves the counter of that      *)
(* category on by one modulo the length and leaves the others, and a step  *)
(* that speaks none leaves them all.                                       *)
C26_PhraseRotation ==
    /\ \A category \in PhraseCategories :
          phraseCounters[category] >= 0 /\ phraseCounters[category] < NumPhrases
    /\ last.op = "handler" =>
          \A category \in PhraseCategories :
             phraseCounters[category] =
                IF category = CategorySpoken
                THEN (last.counters[category] + 1) % NumPhrases
                ELSE last.counters[category]

C26_Witness ==
    /\ HandlerRan("RESPONDING_TO_NEW_WORD")
    /\ CategorySpoken = "word_response"
    /\ last.counters["word_response"] = NumPhrases - 1
    /\ phraseCounters["word_response"] = 0

(* The time stamps of point number i (from 0) being t0 + i * deltaT.       *)
EvenlyStamped(stamps, deltaT) ==
    \A i \in 0..(Len(stamps) - 1) : stamps[i + 1] = t0 + i * deltaT

(* C27: of the two trajectories PUBLISHING_WORD publishes, both have t0 as *)
(* the time stamp of their first point, and point number i, counted from 0 *)
(* through all the letters of the word, has t0 + i * dt in the downsampled *)
(* and t0 + i * dt / DOWNSAMPLEFACTOR in the full trajectory.              *)
C27_TrajectoryTimestamps ==
    HandlerRan("PUBLISHING_WORD") =>
        LET downsampledTraj == last.out[1].args
            traj == last.out[2].args
        IN  /\ last.out[1].cmd = "traj_downsampled" /\ last.out[2].cmd = "traj"
            /\ Len(traj) = Len(last.learner[1]) * NUMPOINTS_SHAPEMODELER
            /\ Len(downsampledTraj) = Len(last.learner[1]) * NUMDESIREDSHAPEPOINTS
            /\ traj[1] = t0 /\ downsampledTraj[1] = t0
            /\ EvenlyStamped(downsampledTraj, dt)
            /\ EvenlyStamped(traj, dtOverDOWNSAMPLEFACTOR)
            /\ dtOverDOWNSAMPLEFACTOR * (NUMPOINTS_SHAPEMODELER - 1)
                  = dt * (NUMDESIREDSHAPEPOINTS - 1)

C27_Witness ==
    /\ HandlerRan("PUBLISHING_WORD")
    /\ Len(last.learner[1]) = 2
    /\ last.out[1].args[NUMDESIREDSHAPEPOINTS + 1] = t0 + NUMDESIREDSHAPEPOINTS * dt
    /\ last.out[2].args[NUMPOINTS_SHAPEMODELER + 1]
          = t0 + NUMPOINTS_SHAPEMODELER * dtOverDOWNSAMPLEFACTOR

(* C28: whenever the current state is STOPPING or EXIT, a Stop             *)
(* notification has been received before: the Stop slot, which only        *)
(* onStopRequestReceived sets and nothing resets, is set.                  *)
C28_StoppingOnlyOnStop ==
    state \in {"STOPPING", "EXIT"} => stopRequestReceived

C28_Witness ==
    /\ HandlerRan("WAITING_FOR_ROBOT_TO_CONNECT")
    /\ last.pre.stop
    /\ stopRequestReceived
    /\ state = "STOPPING"

(* C30: after a word notification that arrives in a state that does not    *)
(* accept words, the Word slot is empty, whether or not it held a word     *)
(* before.                                                                 *)
C30_RefusedWordEmptiesSlot ==
    ( /\ last.op = "onWordReceived"
      /\ last.st \in RegisteredStates
                    \ {"WAITING_FOR_FEEDBACK", "WAITING_FOR_WORD",
                       "ASKING_FOR_FEEDBACK", "STARTING_INTERACTION"} )
    => wordReceived = None

C30_Witness ==
    /\ last.op = "onWordReceived"
    /\ last.st = "WAITING_FOR_ROBOT_TO_CONNECT"
    /\ last.pre.word = Some(<<"a">>)
    /\ last.msg = <<"a", "b">>
    /\ wordReceived = None

(* C29: when the handler of WAITING_FOR_LETTER_TO_FINISH returns           *)
(* ASKING_FOR_FEEDBACK, a render-finished signal has arrived since         *)
(* PUBLISHING_WORD published the trajectory being waited for; a signal     *)
(* that arrived before does not release the wait.                          *)
C29_ReleasedByFreshSignal ==
    (HandlerRan("WAITING_FOR_LETTER_TO_FINISH") /\ state = "ASKING_FOR_FEEDBACK")
        => finishedSincePublish

RespondingStates ==
    { "RESPONDING_TO_TEST_CARD", "RESPONDING_TO_NEW_WORD",
      "RESPONDING_TO_DEMONSTRATION_FULL_WORD", "RESPONDING_TO_FEEDBACK" }

(* C31: a tick of WAITING_FOR_FEEDBACK leaves the Feedback, Demonstration, *)
(* Word and Test slots empty and the Stop slot as it was, whichever event  *)
(* it goes on with; what it put into the context of an event that lost is  *)
(* not handed on by the state that handles the winner, and the test-card   *)
(* state acts on none of it.                                               *)
C31_LosersDropped ==
    /\ HandlerRan("WAITING_FOR_FEEDBACK") =>
          /\ feedbackReceived = None
          /\ demoShapesReceived = <<>>
          /\ wordReceived = None
          /\ ~Truthy(testRequestReceived)
          /\ stopRequestReceived = last.pre.stop
    /\ ( /\ last.op = "handler"
         /\ last.st \in RespondingStates \cup {"STOPPING"}
         /\ loop # "aborted" ) =>
          /\ ~Has(info, "feedbackReceived")
          /\ ~Has(info, "demoShapesReceived")
          /\ Has(info, "wordReceived") =>
                (last.pre.word # None /\ info["wordReceived"] = last.pre.word[1])
    /\ HandlerRan("RESPONDING_TO_TEST_CARD") =>
          (learnerVars = last.learner /\ last.out = <<>>)

C31_Witness ==
    /\ HandlerRan("RESPONDING_TO_NEW_WORD")
    /\ Has(last.ctx, "feedbackReceived")
    /\ Has(last.ctx, "wordReceived")
    /\ last.ctx["state_cameFrom"] = "WAITING_FOR_FEEDBACK"
    /\ feedbackReceived = None
    /\ state = "PUBLISHING_WORD"
    /\ ~Has(info, "feedbackReceived")

C33_DemonstrationLookup ==
    ( /\ HandlerRan("RESPONDING_TO_DEMONSTRATION_FULL_WORD")
      /\ Has(last.ctx, "demoShapesReceived") )
    => /\ \A i \in 1..Len(last.ctx["demoShapesReceived"]) :
             last.ctx["demoShapesReceived"][i] \in SeqToSet(last.learner[1])
       /\ state = "PUBLISHING_WORD"

=============================================================================
